---- MODULE Spec2Model ----
(***************************************************************************)
(* Model of the role-mutation queue of the ReactRoles cog                   *)
(* (src/react_roles/react_roles.py): add_role_queue merges reaction events  *)
(* into one pending delta per "guild_user" key, process_role_queue applies  *)
(* the deltas one member edit at a time.                                    *)
(*                                                                          *)
(* The cog runs on one asyncio event loop: code between two awaits that     *)
(* really suspend is one atomic step.  add_role_queue never suspends (the   *)
(* queue is unbounded, so put returns at once); the worker suspends in      *)
(* role_queue.get() on an empty queue, in mem.edit() and in asyncio.sleep.  *)
(*                                                                          *)
(* The module also models the daily loop of the Birthdays cog               *)
(* (src/birthdays/birthdays.py), the timers of the Reminder cog             *)
(* (src/reminder/reminder.py) and the time arithmetic of the                *)
(* TimezoneConversion cog (src/timezone_conversion/timezone_conversion.py). *)
(* Each cog has its own variables and its own specification; the other      *)
(* cogs' variables stay as Init leaves them.  In these cogs every await of  *)
(* the source ends a step; an "async with" block on a config value whose    *)
(* body has no await is one step.                                           *)
(*                                                                          *)
(* The caches of the ReactRoles cog (message_cache, role_cache, links) and  *)
(* the config they mirror have their own variables and specification.  The  *)
(* roles commands are issued one at a time; a command is one step, its      *)
(* config write and its cache updates together.                             *)
(***************************************************************************)
EXTENDS Integers, Sequences, FiniteSets, TLC

\* ---------------------------------------------------------------- bounds
MaxEvents == 2      \* add_role_queue calls in one behaviour
MaxFails == 1       \* member edits that fail in one behaviour
MaxQuietEvents == 3 \* add_role_queue calls in one behaviour of QuietSpec
MaxDays == 3        \* UTC days the birthday loop lives through
MaxReminders == 2   \* reminders asked for in one behaviour
MaxLoads == 2       \* times the Reminder cog is loaded in one behaviour
MaxCommands == 4    \* roles commands issued in one behaviour
MaxCmds == 2        \* bday set / bday remove commands in one behaviour

\* ------------------------------------------------------ program constants
MAXIMUM_PROCESSED_PER_SECOND == 5
\* 1 / MAXIMUM_PROCESSED_PER_SECOND seconds, in milliseconds
PROCESSING_WAIT_TIME ==
    IF MAXIMUM_PROCESSED_PER_SECOND = 0 THEN 0
    ELSE 1000 \div MAXIMUM_PROCESSED_PER_SECOND

\* ------------------------------------------------------------- universe
Keys == {"g1_u1", "g1_u2"}            \* "{guild.id}_{member.id}"
Everyone == "everyone"                \* member.guild.default_role
Roles == {Everyone, "r1", "r2", "r3"}
LinkGroup == {"r1", "r2"}             \* the roles of one link
Granted == {"r2"}                     \* roles handed out outside the cog
Movers == {"g1_u1"}                   \* members the platform changes or loses

\* The arguments the callers pass: check_add_role passes the role bound to the
\* emoji with linked_roles = get_link(...) of the message (lines 364-365),
\* check_remove_role passes the role and no linked_roles (line 378).  r1 and
\* r2 are bound on messages of the link; r3 was bound on a linked message
\* after the link was parsed, so it is not in the link's role set; the
\* default role is bound on a message outside the link (roles add accepts
\* any role of the guild, line 236).
Reactions ==
    {<<"r1", TRUE, LinkGroup>>, <<"r2", TRUE, LinkGroup>>,
     <<"r3", TRUE, LinkGroup>>, <<Everyone, TRUE, {}>>,
     <<"r1", FALSE, {}>>}

\* ReactRoles caches: the messages, as "{channel.id}_{message.id}", the
\* emojis, the link names, and the bindings (message, emoji, role) the roles
\* add command is asked for
Msgs == {"c1_m1", "c1_m2"}
Emojis == {"e1", "e2"}
LinkNames == {"a", "b"}
Bindings ==
    {<<"c1_m1", "e1", "r1">>, <<"c1_m1", "e2", "r2">>,
     <<"c1_m2", "e1", "r2">>, <<"c1_m2", "e2", "r3">>}
\* the lists of pairs the roles link command is given
LinkLists == {<<"c1_m1">>, <<"c1_m2">>, <<"c1_m1", "c1_m2">>}
NoRole == "none"

\* Birthdays: the users with a stored birthday and the day it falls on
Users == {"u1", "u2"}
BirthdayOf == [u \in Users |-> IF u = "u1" THEN 2 ELSE 1]

\* the days a birthday can be set to, the bday commands of one behaviour and
\* the user who issues them
Days == 1..MaxDays
Cmds == 1..MaxCmds
Author == "u1"

\* Reminder: the reminders users may ask for
Reminders == 1..MaxReminders

\* TimezoneConversion: the source times and the offset differences, in
\* minutes, of the zone pairs tried
Hours == {0, 9, 23}
Minutes == {0, 15, 45}
Offsets == {-720, -570, -60, -30, 0, 30, 60, 345, 570, 840}

VARIABLES
    role_queue,   \* self.role_queue : FIFO of keys
    role_map,     \* self.role_map   : key -> pending delta
    pc,           \* where the worker task is suspended
    key,          \* worker local `key`
    q,            \* worker local `q`, the delta popped from role_map
    member_roles, \* the roles each member holds besides the default role
    in_guild,     \* whether the member still belongs to the guild
    call,         \* history: the latest mem.edit call of the worker
    failed,       \* history: per key, the failed attempts since the last success
    touched,      \* history: per key, an event came since its last call started
    unapplied,    \* history: per key, the events no successful edit carried
    expected,     \* history: per key, all its events applied to its first roles
    nevents,      \* history: add_role_queue calls so far
    nfails,       \* history: failed edits so far
    cog_loaded    \* self == self.bot.get_cog("ReactRoles")

role_vars == <<role_queue, role_map, pc, key, q, member_roles, in_guild,
               call, failed, touched, unapplied, expected, nevents, nfails,
               cog_loaded>>

\* Birthdays cog
VARIABLES
    bday_pc,      \* the line of initialise the daily loop is about to run
    today,        \* the current UTC day
    yesterdays,   \* config.yesterdays : list of member ids
    yesterdays_read, \* local `yesterdays` of clean_yesterday_bdays (line 194)
    has_role,     \* whether the member holds the guild's birthday role
    tasks,        \* the handle_bday and clean_bday tasks not yet finished
    granted_on,   \* history: the day handle_bday last gave the member the role
    started,      \* history: handle_bday tasks started for the user today
    date_config,  \* the date config: per user, the dates their id is under
    cmds          \* per bday command, where its task is and its locals

bday_vars == <<bday_pc, today, yesterdays, yesterdays_read, has_role, tasks,
               granted_on, started, date_config, cmds>>

\* Reminder cog
VARIABLES
    reminders,    \* config.user(user).reminders : the persisted reminders
    rem_pc,       \* per reminder, where its remind / remind_later task is
    sent,         \* history: the reminders whose message was delivered
    loaded,       \* whether the cog is loaded
    nloads        \* history: times the cog was loaded

reminder_vars == <<reminders, rem_pc, sent, loaded, nloads>>

\* TimezoneConversion cog
VARIABLES
    hours_source,    \* argument of format_timezone
    minutes_source,  \* argument of format_timezone
    offset_minutes,  \* utcoffset of the destination zone minus the source's
    hours_dest,      \* local of format_timezone
    minutes_dest,    \* local of format_timezone
    tz_pc            \* "idle", "asked" or "answered"

tz_vars == <<hours_source, minutes_source, offset_minutes, hours_dest,
             minutes_dest, tz_pc>>

\* ReactRoles caches and config
VARIABLES
    message_cache,  \* self.message_cache : the cached messages
    role_cache,     \* self.role_cache : the cached (message, emoji, role)
    links,          \* self.links[guild.id] : message -> linked roles
    msg_config,     \* config.custom(MESSAGE_GROUP) : the bindings on record
    link_config,    \* config.guild(guild).links : name -> list of messages
    reaction_out,   \* history: the latest reaction-add event and its outcome
    deleted,        \* history: per message "live", or how it was when deleted
    ncommands       \* history: roles commands so far

cache_vars == <<message_cache, role_cache, links, msg_config, link_config,
                reaction_out, deleted, ncommands>>

vars == <<role_vars, bday_vars, reminder_vars, tz_vars, cache_vars>>

outside_roles == <<bday_vars, reminder_vars, tz_vars, cache_vars>>
outside_bday == <<role_vars, reminder_vars, tz_vars, cache_vars>>
outside_reminder == <<role_vars, bday_vars, tz_vars, cache_vars>>
outside_tz == <<role_vars, bday_vars, reminder_vars, cache_vars>>
outside_cache == <<role_vars, bday_vars, reminder_vars, tz_vars>>

NoKey == "none"
NoDelta == [add |-> {}, del |-> {}, mem |-> NoKey, evs |-> <<>>]

\* ----------------------------------------------------------- operators
\* roles that answers with the roles the member held when the cog was loaded
rolesAtLoad(k) == IF k = "g1_u1" THEN {"r1", Everyone} ELSE {Everyone}

\* mem.roles: discord.py always lists the default role among a member's roles
roles(k) == member_roles[k] \cup {Everyone}

\* q = {True: set(), False: {member.guild.default_role}, "mem": member}
NewDelta(k) == [add |-> {}, del |-> {Everyone}, mem |-> k, evs |-> <<>>]

\* MergeLinked without line 408 (q[True].difference_update)
MergeLinkedKeepAdd(d, linked_roles) ==
    [d EXCEPT !.del = d.del \cup linked_roles]

\* MergeLinked without line 409 (q[False].update)
MergeLinkedNoRemove(d, linked_roles) ==
    [d EXCEPT !.add = d.add \ linked_roles]

\* lines 408-409: the linked roles leave the add set and join the remove set
MergeLinked(d, linked_roles) ==
    [d EXCEPT !.add = d.add \ linked_roles,
              !.del = d.del \cup linked_roles]

\* MergeRole without line 410 (q[not add_bool] -= {role})
MergeRoleNoEvict(d, role, add_bool) ==
    IF add_bool
    THEN [d EXCEPT !.add = d.add \cup {role}]
    ELSE [d EXCEPT !.del = d.del \cup {role}]

\* MergeRole where a role already in the opposite set stays there
MergeRoleFirstWins(d, role, add_bool) ==
    IF add_bool
    THEN IF role \in d.del THEN d ELSE [d EXCEPT !.add = d.add \cup {role}]
    ELSE IF role \in d.add THEN d ELSE [d EXCEPT !.del = d.del \cup {role}]

\* lines 410-411: the role leaves the opposite set and joins its own
MergeRole(d, role, add_bool) ==
    IF add_bool
    THEN [d EXCEPT !.del = d.del \ {role}, !.add = d.add \cup {role}]
    ELSE [d EXCEPT !.add = d.add \ {role}, !.del = d.del \cup {role}]

Event(role, add_bool, linked_roles) ==
    [role |-> role, add_bool |-> add_bool, linked |-> linked_roles]

\* one event applied to a set of roles: the linked roles go, then the role
\* itself is given or taken
ApplyEvent(S, e) ==
    IF e.add_bool THEN (S \ e.linked) \cup {e.role}
                  ELSE (S \ e.linked) \ {e.role}

\* lines 408-411 on one delta; evs remembers the merged events
Merge(d, role, add_bool, linked_roles) ==
    [MergeRole(MergeLinked(d, linked_roles), role, add_bool)
        EXCEPT !.evs = Append(d.evs, Event(role, add_bool, linked_roles))]

\* line 427: the user's roles + the added - the removed
TargetRoles(all_roles, add_set, del_set) == (all_roles \cup add_set) \ del_set

\* FailedDelta that stores a fresh delta instead of the popped one
FailedDeltaFresh(d) == [d EXCEPT !.add = {}, !.del = {Everyone}]

\* line 429: the delta stored back after a failed edit
FailedDelta(d) == d

\* no mem.edit call was made yet
NoCall == [key |-> NoKey, q |-> NoDelta, read |-> {}, roles |-> {},
           pending |-> <<>>, present |-> FALSE, attempt |-> 0,
           quiet |-> FALSE, prev_q |-> NoDelta, result |-> "none",
           waited |-> 0]

NoFail == [n |-> 0, q |-> NoDelta]

\* the roles the members hold when the cog is loaded
InitialRoles == [k \in Keys |-> IF k = "g1_u1" THEN {"r1"} ELSE {}]

\* WorkerWaiting that also lets the loop go round while an edit is in flight
WorkerWaitingOrEditing == pc \in {"get", "edit"}

\* line 418: the one worker task is suspended in role_queue.get()
WorkerWaiting == pc = "get"

\* Requeue that puts the key at the front of the queue
RequeueFront(queue, k) == <<k>> \o queue

\* line 430: role_queue.put(key) appends the key at the back
Requeue(queue, k) == Append(queue, k)

\* Push that puts the key in the queue at every call
PushAlways(queue, k, fresh) == Append(queue, k)

\* lines 404-406: the key is put in the queue by the call that creates the
\* delta, and by no other
Push(queue, k, fresh) == IF fresh THEN Append(queue, k) ELSE queue

\* StoreDelta that leaves the storing to a later step
StoreDeltaLater(map, k, d) == map

\* line 412: self.role_map[key] = q
StoreDelta(map, k, d) ==
    [x \in DOMAIN map \cup {k} |-> IF x = k THEN d ELSE map[x]]

\* NextKey that takes the key pushed last
NextKeyLast(queue) == queue[Len(queue)]

\* line 418: role_queue.get() returns the key pushed first
NextKey(queue) == Head(queue)

\* Raises that lets a missing member through
RaisesNever(k) == FALSE

\* line 402: member.guild on the None that get_member returned (line 376)
\* raises AttributeError
Raises(k) == ~in_guild[k]

\* line 417: the loop goes round while the bot still holds this cog
LoopTop == IF cog_loaded THEN "get" ELSE "ended"

\* AfterEdit that skips the pause of line 434
AfterEditNoPause == "get"

\* lines 433-434: whatever the outcome of the edit, the worker sleeps next
AfterEdit == "sleep"

\* ---------------------------------------------------------------- Init
\* a bday command not issued yet
NoCmd == [kind |-> "none", date |-> 0, todo |-> {}, pc |-> "new"]

\* Birthdays.__init__: nobody holds the birthday role, the loop is at the
\* top of its first iteration
BdayInit ==
    /\ bday_pc = "clean48"
    /\ today = 1
    /\ yesterdays = <<>>
    /\ yesterdays_read = <<>>
    /\ has_role = [u \in Users |-> FALSE]
    /\ tasks = {}
    /\ granted_on = [u \in Users |-> 0]
    /\ started = [u \in Users |-> 0]
    /\ date_config = [u \in Users |-> {BirthdayOf[u]}]
    /\ cmds = [c \in Cmds |-> NoCmd]

\* Reminder.__init__ on an empty config
ReminderInit ==
    /\ reminders = {}
    /\ rem_pc = [r \in Reminders |-> "new"]
    /\ sent = {}
    /\ loaded = TRUE
    /\ nloads = 1

\* no conversion was asked for
TzIdle ==
    /\ hours_source = 0
    /\ minutes_source = 0
    /\ offset_minutes = 0
    /\ hours_dest = 0
    /\ minutes_dest = 0
    /\ tz_pc = "idle"

\* no reaction-add event came yet
NoReaction == [msg |-> "none", emoji |-> "none", bound |-> NoRole,
               role |-> NoRole, linked |-> {}, gone |-> FALSE]

\* ReactRoles.__init__ and _init_bot_manipulation on an empty config
CacheInit ==
    /\ message_cache = {}
    /\ role_cache = {}
    /\ links = << >>
    /\ msg_config = {}
    /\ link_config = << >>
    /\ reaction_out = NoReaction
    /\ deleted = [m \in Msgs |-> "live"]
    /\ ncommands = 0

\* ReactRoles.__init__
RoleInit ==
    /\ role_queue = <<>>
    /\ role_map = << >>
    /\ pc = "get"
    /\ key = NoKey
    /\ q = NoDelta
    /\ member_roles = InitialRoles
    /\ in_guild = [k \in Keys |-> TRUE]
    /\ call = NoCall
    /\ failed = [k \in Keys |-> NoFail]
    /\ touched = [k \in Keys |-> FALSE]
    /\ unapplied = [k \in Keys |-> <<>>]
    /\ expected = InitialRoles
    /\ nevents = 0
    /\ nfails = 0
    /\ cog_loaded = TRUE

Init == RoleInit /\ BdayInit /\ ReminderInit /\ TzIdle /\ CacheInit

\* ------------------------------------------------------------- actions
\* add_role_queue(member, role, add_bool, linked_roles=...), lines 400-412
add_role_queue(k, role, add_bool, linked_roles) ==
    /\ LET fresh == k \notin DOMAIN role_map
           d == IF fresh THEN NewDelta(k) ELSE role_map[k]
           d2 == Merge(d, role, add_bool, linked_roles)
       IN /\ role_queue' = Push(role_queue, k, fresh)
          /\ role_map' = StoreDelta(role_map, k, d2)
    /\ nevents' = nevents + 1
    /\ touched' = [touched EXCEPT ![k] = TRUE]
    /\ unapplied' = [unapplied EXCEPT
                        ![k] = Append(@, Event(role, add_bool, linked_roles))]
    /\ expected' = [expected EXCEPT
                        ![k] = ApplyEvent(@, Event(role, add_bool, linked_roles))]
    /\ UNCHANGED outside_roles
    /\ UNCHANGED <<pc, key, q, member_roles, in_guild, call, failed, nfails,
                   cog_loaded>>

\* check_add_role, lines 356-365: the event is passed on for a user who is a
\* member of the guild (line 364)
check_add_role(k, role, linked_roles) ==
    /\ in_guild[k]
    /\ add_role_queue(k, role, TRUE, linked_roles)

\* check_remove_role, lines 367-378, for a user other than the bot: the
\* result of get_member goes to add_role_queue unchecked; on None line 402
\* raises and on_raw_reaction_remove catches it (lines 72-75)
check_remove_role(k, role) ==
    IF Raises(k)
    THEN /\ nevents' = nevents + 1
         /\ UNCHANGED outside_roles
         /\ UNCHANGED <<role_queue, role_map, pc, key, q, member_roles,
                        in_guild, call, failed, touched, unapplied, expected,
                        nfails, cog_loaded>>
    ELSE add_role_queue(k, role, FALSE, {})

\* the record of the mem.edit call started for delta d of key k
StartCall(k, d) ==
    [key |-> k,
     q |-> d,
     read |-> roles(d.mem),
     roles |-> TargetRoles(roles(d.mem), d.add, d.del),
     pending |-> unapplied[k],
     present |-> in_guild[k],
     attempt |-> failed[k].n + 1,
     quiet |-> ~touched[k],
     prev_q |-> failed[k].q,
     result |-> "pending",
     waited |-> 0]

\* process_role_queue, lines 418-427: take the next key, pop its delta and
\* start the member edit
Dequeue ==
    /\ WorkerWaiting
    /\ role_queue # <<>>
    /\ LET k == NextKey(role_queue)
       IN /\ role_queue' = Tail(role_queue)
          /\ IF k \notin DOMAIN role_map
             THEN \* role_map.pop(key) raises KeyError: the task ends
                  /\ pc' = "crashed"
                  /\ UNCHANGED <<role_map, key, q, call, touched>>
             ELSE LET d == role_map[k]
                  IN /\ role_map' = [x \in DOMAIN role_map \ {k} |-> role_map[x]]
                     /\ IF d.mem # NoKey
                        THEN /\ pc' = "edit"
                             /\ key' = k
                             /\ q' = d
                             /\ call' = StartCall(k, d)
                             /\ touched' = [touched EXCEPT ![k] = FALSE]
                        ELSE /\ pc' = LoopTop
                             /\ UNCHANGED <<key, q, call, touched>>
    /\ UNCHANGED outside_roles
    /\ UNCHANGED <<member_roles, in_guild, failed, unapplied, expected,
                   nevents, nfails, cog_loaded>>

\* lines 431-434: the edit returned; the member now holds the roles passed
EditOk ==
    /\ pc = "edit"
    /\ in_guild[key]            \* the platform knows no such member otherwise
    /\ member_roles' = [member_roles EXCEPT ![key] = call.roles \ {Everyone}]
    /\ call' = [call EXCEPT !.result = "ok"]
    /\ failed' = [failed EXCEPT ![key] = NoFail]
    /\ unapplied' = [unapplied EXCEPT
            ![key] = SubSeq(@, Len(call.pending) + 1, Len(@))]
    /\ pc' = AfterEdit
    /\ key' = NoKey
    /\ q' = NoDelta
    /\ UNCHANGED outside_roles
    /\ UNCHANGED <<role_queue, role_map, in_guild, touched, expected,
                   nevents, nfails, cog_loaded>>

\* lines 428-430, 433-434: Forbidden or HTTPException; store the delta back
\* and put the key at the back of the queue
EditFail ==
    /\ pc = "edit"
    /\ nfails < MaxFails
    /\ nfails' = nfails + 1
    /\ role_map' = [x \in DOMAIN role_map \cup {key} |->
                       IF x = key THEN FailedDelta(q) ELSE role_map[x]]
    /\ role_queue' = Requeue(role_queue, key)
    /\ call' = [call EXCEPT !.result = "fail"]
    /\ failed' = [failed EXCEPT ![key] = [n |-> @.n + 1, q |-> q]]
    /\ pc' = AfterEdit
    /\ key' = NoKey
    /\ q' = NoDelta
    /\ UNCHANGED outside_roles
    /\ UNCHANGED <<member_roles, in_guild, touched, unapplied, expected,
                   nevents, cog_loaded>>

\* line 434 then line 417: the pause is over, the loop goes round
Wake ==
    /\ pc = "sleep"
    /\ pc' = LoopTop
    /\ call' = [call EXCEPT !.waited = @ + PROCESSING_WAIT_TIME]
    /\ UNCHANGED outside_roles
    /\ UNCHANGED <<role_queue, role_map, key, q, member_roles, in_guild,
                   failed, touched, unapplied, expected, nevents, nfails,
                   cog_loaded>>

\* the platform: somebody else gives the member a role or takes it away
MemberUpdate(k, r) ==
    /\ in_guild[k]
    /\ member_roles' = [member_roles EXCEPT
            ![k] = IF r \in @ THEN @ \ {r} ELSE @ \cup {r}]
    /\ UNCHANGED outside_roles
    /\ UNCHANGED <<role_queue, role_map, pc, key, q, in_guild, call, failed,
                   touched, unapplied, expected, nevents, nfails, cog_loaded>>

\* the platform: the member leaves the guild
MemberLeave(k) ==
    /\ in_guild[k]
    /\ in_guild' = [in_guild EXCEPT ![k] = FALSE]
    /\ UNCHANGED outside_roles
    /\ UNCHANGED <<role_queue, role_map, pc, key, q, member_roles, call,
                   failed, touched, unapplied, expected, nevents, nfails,
                   cog_loaded>>

\* the bot unloads the cog: get_cog no longer returns it and its listeners
\* are taken off
UnloadCog ==
    /\ cog_loaded
    /\ cog_loaded' = FALSE
    /\ UNCHANGED outside_roles
    /\ UNCHANGED <<role_queue, role_map, pc, key, q, member_roles, in_guild,
                   call, failed, touched, unapplied, expected, nevents,
                   nfails>>

\* a reaction event reaches on_raw_reaction_add or on_raw_reaction_remove
Reaction(k, r) ==
    /\ cog_loaded
    /\ IF r[2] THEN check_add_role(k, r[1], r[3])
               ELSE check_remove_role(k, r[1])

AddRoleQueue ==
    /\ nevents < MaxEvents
    /\ \E k \in Keys, r \in Reactions : Reaction(k, r)

\* the same events, up to MaxQuietEvents of them
QuietAddRoleQueue ==
    /\ nevents < MaxQuietEvents
    /\ \E k \in Keys, r \in Reactions : Reaction(k, r)

Update == \E k \in Movers, r \in Granted : MemberUpdate(k, r)

Leave == \E k \in Movers : MemberLeave(k)

Next ==
    \/ AddRoleQueue
    \/ Dequeue
    \/ EditOk
    \/ EditFail
    \/ Wake
    \/ Update
    \/ Leave

Spec == Init /\ [][Next]_vars

\* The cog alone with its members: nobody else changes a member's roles and
\* no member leaves.  The worker task is scheduled fairly by the event loop.
QuietNext ==
    \/ QuietAddRoleQueue
    \/ Dequeue
    \/ EditOk
    \/ EditFail
    \/ Wake

QuietSpec ==
    /\ Init
    /\ [][QuietNext]_vars
    /\ WF_vars(Dequeue)
    /\ WF_vars(EditOk \/ EditFail)
    /\ WF_vars(Wake)

\* The cog until and after its unload, with its members present and the
\* platform leaving their roles alone.
UnloadNext ==
    \/ AddRoleQueue
    \/ Dequeue
    \/ EditOk
    \/ EditFail
    \/ Wake
    \/ UnloadCog

UnloadSpec ==
    /\ Init
    /\ [][UnloadNext]_vars
    /\ WF_vars(Dequeue)
    /\ WF_vars(EditOk \/ EditFail)
    /\ WF_vars(Wake)

\* ------------------------------------------- ReactRoles caches
\* the messages of a list of pairs
Range(link) == {link[i] : i \in 1..Len(link)}

\* the role a set of bindings gives for emoji e on message m, if any
RoleIn(bindings, m, e) ==
    IF \E b \in bindings : b[1] = m /\ b[2] = e
    THEN (CHOOSE b \in bindings : b[1] = m /\ b[2] = e)[3]
    ELSE NoRole

\* lines 507-508
get_from_message_cache(m) == m \in message_cache

\* lines 483-485
get_from_cache(m, e) == RoleIn(role_cache, m, e)

\* lines 478-481
get_all_roles_from_message(m) == {b[3] : b \in {x \in role_cache : x[1] = m}}

\* lines 447-448
get_link(m) == IF m \in DOMAIN links THEN links[m] ELSE {}

\* lines 450-460, called with the one link of lines 213-214: a new dict with
\* an entry per message of the link, all holding the roles of the link's
\* messages, takes the place of self.links[server_id]
parse_links(link) ==
    [m \in Range(link) |->
        UNION {get_all_roles_from_message(x) : x \in Range(link)}]

\* roles add, lines 221-263: the emoji is not bound on the message yet; the
\* message and the role are cached and the binding is put on record
roles_add(b) ==
    /\ ncommands < MaxCommands
    /\ deleted[b[1]] = "live"   \* line 231: safe_get_message finds it
    /\ RoleIn(msg_config, b[1], b[2]) = NoRole
    /\ message_cache' = message_cache \cup {b[1]}
    /\ role_cache' =
          {x \in role_cache : ~(x[1] = b[1] /\ x[2] = b[2])} \cup {b}
    /\ msg_config' = msg_config \cup {b}
    /\ ncommands' = ncommands + 1
    /\ UNCHANGED <<links, link_config, reaction_out, deleted>>
    /\ UNCHANGED outside_cache

\* roles remove, lines 268-285: the binding of the role is taken off the
\* record (line 283), the message leaves the message cache (line 284) and
\* the emoji leaves the role cache (line 285)
roles_remove(b) ==
    /\ ncommands < MaxCommands
    /\ b \in msg_config
    /\ msg_config' = msg_config \ {b}
    /\ message_cache' = message_cache \ {b[1]}
    /\ role_cache' = {x \in role_cache : ~(x[1] = b[1] /\ x[2] = b[2])}
    /\ ncommands' = ncommands + 1
    /\ UNCHANGED <<links, link_config, reaction_out, deleted>>
    /\ UNCHANGED outside_cache

\* roles link, lines 164-215, with pairs that were all found and a name not
\* taken: the link is put on record and parsed into the link cache
roles_link(name, link) ==
    /\ ncommands < MaxCommands
    /\ \A m \in Range(link) : deleted[m] = "live"   \* lines 184-185
    /\ name \notin DOMAIN link_config
    /\ link_config' = [n \in DOMAIN link_config \cup {name} |->
                          IF n = name THEN link ELSE link_config[n]]
    /\ links' = parse_links(link)
    /\ ncommands' = ncommands + 1
    /\ UNCHANGED <<message_cache, role_cache, msg_config, reaction_out,
                   deleted>>
    /\ UNCHANGED outside_cache

\* roles unlink, lines 149-160 and 462-470: the messages of the link leave
\* the link cache and the link leaves the record
roles_unlink(name) ==
    /\ ncommands < MaxCommands
    /\ name \in DOMAIN link_config
    /\ links' = [m \in DOMAIN links \ Range(link_config[name]) |-> links[m]]
    /\ link_config' = [n \in DOMAIN link_config \ {name} |-> link_config[n]]
    /\ ncommands' = ncommands + 1
    /\ UNCHANGED <<message_cache, role_cache, msg_config, reaction_out,
                   deleted>>
    /\ UNCHANGED outside_cache

\* on_raw_reaction_add and check_add_role, lines 54-63 and 356-365, for a
\* member other than the bot: the role found for the emoji, if the message
\* is cached, goes to add_role_queue with the link of the message.  The
\* call is recorded with the role the record binds to the emoji.
on_raw_reaction_add(m, e) ==
    /\ reaction_out' =
          [msg |-> m,
           emoji |-> e,
           bound |-> RoleIn(msg_config, m, e),
           role |-> IF get_from_message_cache(m) THEN get_from_cache(m, e)
                                                 ELSE NoRole,
           linked |-> IF get_from_message_cache(m)
                         /\ get_from_cache(m, e) # NoRole
                      THEN get_link(m) ELSE {},
           gone |-> deleted[m] # "live"]
    /\ UNCHANGED <<message_cache, role_cache, links, msg_config, link_config,
                   deleted, ncommands>>
    /\ UNCHANGED outside_cache

\* the list of pairs without message m (line 398: links.remove(pair))
WithoutMsg(link, m) == SelectSeq(link, LAMBDA x : x # m)

\* the message is bound: the record holds a binding on it
Bound(m) == \E b \in msg_config : b[1] = m

\* on_raw_message_delete and check_delete_message, lines 76-79 and 380-398:
\* the platform deleted message m.  When the message is cached its bindings
\* leave the record (line 386), it leaves the message cache, the role cache
\* and the link cache (lines 388-393) and the link lists on record (lines
\* 395-398); when it is not cached the listener does nothing (line 78).
on_raw_message_delete(m) ==
    /\ deleted[m] = "live"
    /\ deleted' = [deleted EXCEPT ![m] = IF Bound(m) THEN "bound" ELSE "unbound"]
    /\ IF get_from_message_cache(m)
       THEN /\ msg_config' = {b \in msg_config : b[1] # m}
            /\ message_cache' = message_cache \ {m}
            /\ role_cache' = {x \in role_cache : x[1] # m}
            /\ links' = [x \in DOMAIN links \ {m} |-> links[x]]
            /\ link_config' = [n \in DOMAIN link_config |->
                                  WithoutMsg(link_config[n], m)]
       ELSE UNCHANGED <<msg_config, message_cache, role_cache, links,
                        link_config>>
    /\ UNCHANGED <<reaction_out, ncommands>>
    /\ UNCHANGED outside_cache

CacheNext ==
    \/ \E b \in Bindings : roles_add(b)
    \/ \E b \in Bindings : roles_remove(b)
    \/ \E name \in LinkNames, link \in LinkLists : roles_link(name, link)
    \/ \E name \in LinkNames : roles_unlink(name)
    \/ \E m \in Msgs, e \in Emojis : on_raw_reaction_add(m, e)
    \/ \E m \in Msgs : on_raw_message_delete(m)

CacheSpec == Init /\ [][CacheNext]_vars

\* ------------------------------------------------------ Birthdays cog
\* line 201: the users whose stored birthday is day d
TodaysBdays(d) == {u \in Users : d \in date_config[u]}

\* line 196: asyncio.ensure_future(self.clean_bday(user_id))
CleanTask(u, from) == [kind |-> "clean", user |-> u, from |-> from, pc |-> "remove"]

\* line 203: asyncio.ensure_future(self.handle_bday(int(user_id), year))
HandleTask(u, from) == [kind |-> "handle", user |-> u, from |-> from, pc |-> "add"]

\* every task the loop can start, at every await it can be suspended in
AllTasks ==
    {CleanTask(u, from) : u \in Users, from \in {"clean48", "clean51"}}
    \cup {[HandleTask(u, from) EXCEPT !.pc = p] :
             u \in Users, from \in {"today49", "today52"},
             p \in {"add", "append", "send"}}

\* task t moved to position p
Moved(t, p) == (tasks \ {t}) \cup {[t EXCEPT !.pc = p]}

\* clean_yesterday_bdays, lines 194-196 (called at lines 48 and 51): read the
\* list and start one clean_bday task per id in it
CleanRead ==
    /\ bday_pc \in {"clean48", "clean51"}
    /\ tasks' = tasks \cup
          {CleanTask(yesterdays[i], bday_pc) : i \in 1..Len(yesterdays)}
    /\ yesterdays_read' = yesterdays
    /\ bday_pc' = IF bday_pc = "clean48" THEN "clear48" ELSE "clear51"
    /\ UNCHANGED <<today, yesterdays, has_role, granted_on, started>>
    /\ UNCHANGED <<date_config, cmds>>
    /\ UNCHANGED outside_bday

\* clean_yesterday_bdays, line 197: clear the list
CleanClear ==
    /\ bday_pc \in {"clear48", "clear51"}
    /\ yesterdays' = <<>>
    /\ yesterdays_read' = <<>>
    /\ bday_pc' = IF bday_pc = "clear48" THEN "today49" ELSE "today52"
    /\ UNCHANGED <<today, has_role, tasks, granted_on, started>>
    /\ UNCHANGED <<date_config, cmds>>
    /\ UNCHANGED outside_bday

\* do_today_bdays, lines 199-203 (called at lines 49 and 52): start one
\* handle_bday task per user whose birthday is today; after line 52 the loop
\* goes round to line 48
DoToday ==
    /\ bday_pc \in {"today49", "today52"}
    /\ tasks' = tasks \cup {HandleTask(u, bday_pc) : u \in TodaysBdays(today)}
    /\ started' = [u \in Users |->
                      IF u \in TodaysBdays(today) THEN started[u] + 1
                                                  ELSE started[u]]
    /\ bday_pc' = IF bday_pc = "today49" THEN "sleep50" ELSE "clean48"
    /\ UNCHANGED <<today, yesterdays, has_role, granted_on>>
    /\ UNCHANGED yesterdays_read
    /\ UNCHANGED <<date_config, cmds>>
    /\ UNCHANGED outside_bday

\* line 50: the sleep ends at the next UTC midnight; the tasks of the day,
\* which take seconds, have finished by then
Midnight ==
    /\ bday_pc = "sleep50"
    /\ today < MaxDays
    /\ tasks = {}
    /\ today' = today + 1
    /\ started' = [u \in Users |-> 0]
    /\ bday_pc' = "clean51"
    /\ UNCHANGED <<yesterdays, has_role, tasks, granted_on>>
    /\ UNCHANGED yesterdays_read
    /\ UNCHANGED <<date_config, cmds>>
    /\ UNCHANGED outside_bday

\* handle_bday, line 160: member.add_roles(role) returns
HandleAddOk(t) ==
    /\ t \in tasks
    /\ t.kind = "handle" /\ t.pc = "add"
    /\ has_role' = [has_role EXCEPT ![t.user] = TRUE]
    /\ granted_on' = [granted_on EXCEPT ![t.user] = today]
    /\ tasks' = Moved(t, "append")
    /\ UNCHANGED <<bday_pc, today, yesterdays, started>>
    /\ UNCHANGED yesterdays_read
    /\ UNCHANGED <<date_config, cmds>>
    /\ UNCHANGED outside_bday

\* handle_bday, lines 161-162: Forbidden or HTTPException, passed over
HandleAddFail(t) ==
    /\ t \in tasks
    /\ t.kind = "handle" /\ t.pc = "add"
    /\ tasks' = Moved(t, "send")
    /\ UNCHANGED <<bday_pc, today, yesterdays, has_role, granted_on, started>>
    /\ UNCHANGED yesterdays_read
    /\ UNCHANGED <<date_config, cmds>>
    /\ UNCHANGED outside_bday

\* handle_bday, lines 164-165: yesterdays.append(member.id)
HandleAppend(t) ==
    /\ t \in tasks
    /\ t.kind = "handle" /\ t.pc = "append"
    /\ yesterdays' = Append(yesterdays, t.user)
    /\ tasks' = Moved(t, "send")
    /\ UNCHANGED <<bday_pc, today, has_role, granted_on, started>>
    /\ UNCHANGED yesterdays_read
    /\ UNCHANGED <<date_config, cmds>>
    /\ UNCHANGED outside_bday

\* handle_bday, lines 166-168: the announcement is sent, the task ends
HandleSend(t) ==
    /\ t \in tasks
    /\ t.kind = "handle" /\ t.pc = "send"
    /\ tasks' = tasks \ {t}
    /\ UNCHANGED <<bday_pc, today, yesterdays, has_role, granted_on, started>>
    /\ UNCHANGED yesterdays_read
    /\ UNCHANGED <<date_config, cmds>>
    /\ UNCHANGED outside_bday

\* clean_bday, lines 130-140: the member loses the role if they hold it
CleanBday(t) ==
    /\ t \in tasks
    /\ t.kind = "clean"
    /\ has_role' = [has_role EXCEPT ![t.user] = FALSE]
    /\ tasks' = tasks \ {t}
    /\ UNCHANGED <<bday_pc, today, yesterdays, granted_on, started>>
    /\ UNCHANGED yesterdays_read
    /\ UNCHANGED <<date_config, cmds>>
    /\ UNCHANGED outside_bday

BdayNext ==
    \/ CleanRead
    \/ CleanClear
    \/ DoToday
    \/ Midnight
    \/ \E t \in AllTasks : HandleAddOk(t)
    \/ \E t \in AllTasks : HandleAddFail(t)
    \/ \E t \in AllTasks : HandleAppend(t)
    \/ \E t \in AllTasks : HandleSend(t)
    \/ \E t \in AllTasks : CleanBday(t)

BdaySpec == Init /\ [][BdayNext]_vars

\* the variables of the daily loop
loop_vars == <<bday_pc, today, yesterdays, yesterdays_read, has_role, tasks,
               granted_on, started>>

\* remove_user_bday, lines 186-187, as bday set and bday remove enter it: the
\* dates that hold the author's id in the configs read at line 187
DatesRead == date_config[Author]

\* bday set, lines 94-101 and 186-187: the date is valid, remove_user_bday
\* reads all the date configs
bday_set(c, d) ==
    /\ cmds[c].pc = "new"
    /\ cmds' = [cmds EXCEPT ![c] =
          [kind |-> "set", date |-> d, todo |-> DatesRead,
           pc |-> IF DatesRead = {} THEN "set" ELSE "clear"]]
    /\ UNCHANGED date_config
    /\ UNCHANGED loop_vars
    /\ UNCHANGED outside_bday

\* bday remove, lines 84-85 and 186-187
bday_remove(c) ==
    /\ cmds[c].pc = "new"
    /\ cmds' = [cmds EXCEPT ![c] =
          [kind |-> "remove", date |-> 0, todo |-> DatesRead,
           pc |-> IF DatesRead = {} THEN "done" ELSE "clear"]]
    /\ UNCHANGED date_config
    /\ UNCHANGED loop_vars
    /\ UNCHANGED outside_bday

\* remove_user_bday, lines 188-190: the author's id is cleared under one of
\* the dates that held it when the configs were read
ClearDate(c) ==
    /\ cmds[c].pc = "clear"
    /\ \E d \in cmds[c].todo :
          /\ date_config' = [date_config EXCEPT ![Author] = @ \ {d}]
          /\ cmds' = [cmds EXCEPT
                ![c].todo = @ \ {d},
                ![c].pc = IF cmds[c].todo = {d}
                          THEN (IF cmds[c].kind = "set" THEN "set" ELSE "done")
                          ELSE "clear"]
    /\ UNCHANGED loop_vars
    /\ UNCHANGED outside_bday

\* bday set, line 102: the author's id is stored under the new date
SetDate(c) ==
    /\ cmds[c].pc = "set"
    /\ date_config' = [date_config EXCEPT ![Author] = @ \cup {cmds[c].date}]
    /\ cmds' = [cmds EXCEPT ![c].pc = "done"]
    /\ UNCHANGED loop_vars
    /\ UNCHANGED outside_bday

\* the bday commands of one user, each a task of its own
BdayCmdNext ==
    \/ \E c \in Cmds, d \in Days : bday_set(c, d)
    \/ \E c \in Cmds : bday_remove(c)
    \/ \E c \in Cmds : ClearDate(c)
    \/ \E c \in Cmds : SetDate(c)

BdayCmdSpec == Init /\ [][BdayCmdNext]_vars

\* ------------------------------------------------------- Reminder cog
\* SendCompleted that holds as soon as the send was started
SendStarted(r) == rem_pc[r] \in {"send", "remove"}

\* lines 97-98: user.send is awaited before the reminder is taken off
SendCompleted(r) == rem_pc[r] = "remove"

\* the remind_later tasks __unload can cancel
Running == {"sleep", "send", "remove"}

\* remind, lines 68-74: the reminder is appended to the persisted list
remind(r) ==
    /\ loaded
    /\ rem_pc[r] = "new"
    /\ reminders' = reminders \cup {r}
    /\ rem_pc' = [rem_pc EXCEPT ![r] = "persisted"]
    /\ UNCHANGED <<sent, loaded, nloads>>
    /\ UNCHANGED outside_reminder

\* remind, line 75: the remind_later task is started and kept in futures
StartTimer(r) ==
    /\ rem_pc[r] = "persisted"
    /\ rem_pc' = [rem_pc EXCEPT ![r] = "sleep"]
    /\ UNCHANGED <<reminders, sent, loaded, nloads>>
    /\ UNCHANGED outside_reminder

\* remind_later, lines 95-97: the sleep is over, user.send is called
TimerEnds(r) ==
    /\ rem_pc[r] = "sleep"
    /\ rem_pc' = [rem_pc EXCEPT ![r] = "send"]
    /\ UNCHANGED <<reminders, sent, loaded, nloads>>
    /\ UNCHANGED outside_reminder

\* remind_later, line 97: user.send returns
SendOk(r) ==
    /\ rem_pc[r] = "send"
    /\ sent' = sent \cup {r}
    /\ rem_pc' = [rem_pc EXCEPT ![r] = "remove"]
    /\ UNCHANGED <<reminders, loaded, nloads>>
    /\ UNCHANGED outside_reminder

\* remind_later, line 97: user.send raises, the task ends there
SendFail(r) ==
    /\ rem_pc[r] = "send"
    /\ rem_pc' = [rem_pc EXCEPT ![r] = "failed"]
    /\ UNCHANGED <<reminders, sent, loaded, nloads>>
    /\ UNCHANGED outside_reminder

\* remind_later, lines 98-99: user_reminders.remove(reminder)
RemoveReminder(r) ==
    /\ SendCompleted(r)
    /\ reminders' = reminders \ {r}
    /\ rem_pc' = [rem_pc EXCEPT ![r] = "done"]
    /\ UNCHANGED <<sent, loaded, nloads>>
    /\ UNCHANGED outside_reminder

\* __unload, lines 47-49: every task in futures is cancelled
Unload ==
    /\ loaded
    /\ loaded' = FALSE
    /\ rem_pc' = [r \in Reminders |->
                     IF rem_pc[r] \in Running THEN "cancelled" ELSE rem_pc[r]]
    /\ UNCHANGED <<reminders, sent, nloads>>
    /\ UNCHANGED outside_reminder

\* __init__ and start_saved_reminders, lines 44 and 80-91: a remind_later
\* task is started for every persisted reminder whose user the bot still
\* sees (found); for the others line 87 builds a config value named
\* "remove" and drops it, which leaves the list as it is.  The cog is
\* loaded again once the commands and tasks of its former instance ended.
Load ==
    /\ ~loaded
    /\ nloads < MaxLoads
    /\ \A r \in Reminders : rem_pc[r] \notin Running \cup {"persisted"}
    /\ loaded' = TRUE
    /\ nloads' = nloads + 1
    /\ \E found \in SUBSET reminders :
          rem_pc' = [r \in Reminders |->
                        IF r \in found THEN "sleep" ELSE rem_pc[r]]
    /\ UNCHANGED <<reminders, sent>>
    /\ UNCHANGED outside_reminder

ReminderNext ==
    \/ \E r \in Reminders : remind(r)
    \/ \E r \in Reminders : StartTimer(r)
    \/ \E r \in Reminders : TimerEnds(r)
    \/ \E r \in Reminders : SendOk(r)
    \/ \E r \in Reminders : SendFail(r)
    \/ \E r \in Reminders : RemoveReminder(r)
    \/ Unload
    \/ Load

ReminderSpec == Init /\ [][ReminderNext]_vars

\* ------------------------------------------- TimezoneConversion cog
\* timezone_diff, lines 199-203: divmod(offset_minutes, 60), the quotient
\* rounded down and the remainder in 0..59
timezone_diff(offset) == <<offset \div 60, offset % 60>>

\* format_timezone, lines 221-225, with hours_source and minutes_source given
format_timezone ==
    /\ tz_pc = "asked"
    /\ LET time_diff == timezone_diff(offset_minutes)
       IN /\ hours_dest' = (hours_source + time_diff[1] + 24) % 24
          /\ minutes_dest' = (minutes_source + time_diff[2] + 60) % 60
    /\ tz_pc' = "answered"
    /\ UNCHANGED <<hours_source, minutes_source, offset_minutes>>
    /\ UNCHANGED outside_tz

\* a conversion of some source time between some pair of zones is asked for
TzInit ==
    /\ RoleInit /\ BdayInit /\ ReminderInit /\ CacheInit
    /\ hours_source \in Hours
    /\ minutes_source \in Minutes
    /\ offset_minutes \in Offsets
    /\ hours_dest = 0
    /\ minutes_dest = 0
    /\ tz_pc = "asked"

TzNext == format_timezone

TzSpec == TzInit /\ [][TzNext]_vars

\* ------------------------------------------------------ claim helpers
RECURSIVE ApplyAll(_, _)
ApplyAll(S, evs) ==
    IF evs = <<>> THEN S ELSE ApplyAll(ApplyEvent(S, Head(evs)), Tail(evs))

Occurrences(s, x) == Cardinality({i \in 1..Len(s) : s[i] = x})

\* the deltas that exist: those stored in role_map and the one the worker holds
Deltas == {role_map[k] : k \in DOMAIN role_map} \cup (IF pc = "edit" THEN {q} ELSE {})

\* the positions of d.evs that name role r, as the role or as a linked role
Mentions(d, r) ==
    {i \in 1..Len(d.evs) : d.evs[i].role = r \/ r \in d.evs[i].linked}

Last(S) == CHOOSE i \in S : \A j \in S : j <= i

\* position j of d.evs is the last word on role r and overrides an earlier
\* event for r in the other direction
Overrides(d, r, j) ==
    /\ Mentions(d, r) # {}
    /\ j = Last(Mentions(d, r))
    /\ d.evs[j].role = r
    /\ \E i \in 1..(j - 1) :
          d.evs[i].role = r /\ d.evs[i].add_bool # d.evs[j].add_bool

\* ------------------------------------------------------------- claims
\* C1 (coalescing): every mem.edit call carries the net effect of all the
\* add_role_queue calls made for its key and not yet applied by a successful
\* edit, in arrival order, on the roles read when the call starts (the
\* implicit default role aside); and once it succeeded with no event since,
\* no delta is left for the key, so the events got exactly one call.
C1_Coalescing ==
    call.key # NoKey =>
        /\ call.roles = ApplyAll(call.read \ {Everyone}, call.pending)
        /\ (call.result = "ok" /\ ~touched[call.key])
              => call.key \notin DOMAIN role_map

\* C2: in no pending delta, stored or held by the worker, is a role both in
\* the add set and in the remove set.
C2_AddRemoveDisjoint == \A d \in Deltas : d.add \cap d.del = {}

\* C2 witness: a stored delta merged two events, the second of which moved
\* the role of the first from the add set to the remove set.
C2_Witness ==
    \E k \in DOMAIN role_map :
        LET d == role_map[k]
        IN /\ Len(d.evs) = 2
           /\ d.evs[1].add_bool
           /\ d.evs[1].role \in d.del
           /\ d.add # {}

\* C3: every key occurs at most once in role_queue.
C3_KeyQueuedOnce == \A k \in Keys : Occurrences(role_queue, k) <= 1

\* C4: a key never has a delta in role_map while the worker holds a popped
\* delta of the same key.
C4_OneDeltaPerKey == ~(pc = "edit" /\ key \in DOMAIN role_map)

\* C5: no mem.edit call is passed the guild's default role.
C5_EveryoneNeverPassed == call.key # NoKey => Everyone \notin call.roles

\* C6 (retry): when the second attempt on a delta succeeds, no event for the
\* subject having come since its first attempt started, both attempts carried
\* the same delta, these are the only two calls (no delta is left for the key
\* unless a new event came), and the member ends with the roles read at the
\* second attempt plus the add set minus the remove set.
C6_RetryOnce ==
    [][(/\ call.attempt = 2
        /\ call.quiet
        /\ call.result = "pending"
        /\ call'.result = "ok")
       => /\ call.q = call.prev_q
          /\ member_roles'[call.key] =
                ((call.read \cup call.q.add) \ call.q.del) \ {Everyone}
          /\ (call.key \in DOMAIN role_map' => touched'[call.key])]_vars

\* C6 witness: a second attempt succeeded and changed the member's roles.
C6_Witness ==
    /\ call.attempt = 2
    /\ call.quiet
    /\ call.result = "ok"
    /\ call.roles # call.read

\* C7: no mem.edit call is made for a member who has left the guild.
C7_NoEditForMissing == call.key # NoKey => call.present

\* C8 (linked-role merge): a call add_role_queue(R, add, L) leaves no role of
\* L other than R in the add set and all of them in the remove set, with R in
\* the add set; on a fresh delta the add set is exactly {R}.
C8_LinkedMerge ==
    [][\A k \in Keys :
        (Len(unapplied'[k]) = Len(unapplied[k]) + 1
            /\ unapplied'[k][Len(unapplied'[k])].add_bool)
        => LET e == unapplied'[k][Len(unapplied'[k])]
               others == e.linked \ {e.role}
               d == role_map'[k]
           IN /\ d.add \cap others = {}
              /\ others \subseteq d.del
              /\ e.role \in d.add
              /\ e.role \notin d.del
              /\ (k \notin DOMAIN role_map => d.add = {e.role})]_vars

\* C8 witness: the second event of a delta has linked roles {A, B}, a role R
\* outside them, and moved A, added by the first event, to the remove set.
C8_Witness ==
    \E k \in DOMAIN role_map :
        LET d == role_map[k]
        IN /\ Len(d.evs) = 2
           /\ d.evs[1].add_bool /\ d.evs[2].add_bool
           /\ d.evs[2].role \notin d.evs[2].linked
           /\ d.evs[1].role \in d.evs[2].linked
           /\ d.add = {d.evs[2].role}
           /\ d.evs[2].linked \subseteq d.del

\* C9 (linked-group exclusivity): when an edit succeeds whose delta merged at
\* least one add event for a role of the link group, all of them carrying the
\* group as linked_roles, the member then holds at most one role of the
\* group, and only the one added last.
C9_LinkedExclusive ==
    [][(call.result = "pending" /\ call'.result = "ok")
       => LET evs == call.q.evs
              adds == {i \in 1..Len(evs) :
                          evs[i].add_bool /\ evs[i].role \in LinkGroup}
          IN (adds # {} /\ \A i \in adds : evs[i].linked = LinkGroup)
             => /\ Cardinality(member_roles'[call.key] \cap LinkGroup) <= 1
                /\ member_roles'[call.key] \cap LinkGroup
                      \subseteq {evs[Last(adds)].role}]_vars

\* C9 witness: a member who held a role of the group was successfully given
\* another one, and the edit took the first away.
C9_Witness ==
    /\ call.result = "ok"
    /\ \E i \in 1..Len(call.q.evs) :
          /\ call.q.evs[i].add_bool
          /\ call.q.evs[i].role \in LinkGroup
          /\ call.q.evs[i].role \notin call.read
    /\ call.read \cap LinkGroup # {}
    /\ Cardinality(call.roles \cap LinkGroup) = 1

\* C10 (last writer wins): in every delta, a remove(R) that overrides an
\* earlier add(R) leaves R out of the add set and in the remove set, an add(R)
\* that overrides an earlier remove(R) leaves R in the add set only; the edit
\* call made with the delta excludes, respectively includes, R.
C10_LastWriterWins ==
    /\ \A d \in Deltas : \A r \in Roles : \A j \in 1..Len(d.evs) :
          Overrides(d, r, j) =>
              IF d.evs[j].add_bool
              THEN r \in d.add /\ r \notin d.del
              ELSE r \notin d.add /\ r \in d.del
    /\ \A r \in Roles : \A j \in 1..Len(call.q.evs) :
          Overrides(call.q, r, j) =>
              (call.q.evs[j].add_bool <=> r \in call.roles)

\* C10 witness: an edit call whose delta merged add(R) then remove(R) for a
\* role R the member held, and the call leaves R out.
C10_Witness ==
    /\ call.key # NoKey
    /\ \E r \in call.read : \E j \in 1..Len(call.q.evs) :
          /\ Overrides(call.q, r, j)
          /\ ~call.q.evs[j].add_bool
          /\ r \notin call.roles

\* ------------------------------------------- claims on the worker loop
\* the events of the delta the worker holds for key k
HeldEvents(k) == IF pc = "edit" /\ key = k THEN q.evs ELSE <<>>

\* the events of the delta stored for key k
StoredEvents(k) == IF k \in DOMAIN role_map THEN role_map[k].evs ELSE <<>>

\* nothing is queued, stored or in flight
AtRest ==
    /\ role_queue = <<>>
    /\ DOMAIN role_map = {}
    /\ pc \in {"get", "crashed"}

\* a new mem.edit call starts in this step
CallStarts == call' # call /\ call'.result = "pending"

\* C11 (eventual convergence): with no other source of role changes, once
\* the dispatch queue and role_map are empty and no edit is in flight or
\* about to be retried, a state that lasts when no more events arrive, every
\* subject holds the result of applying all its events, in arrival order, to
\* its initial roles (the implicit default role aside).
C11_Convergence ==
    AtRest => \A k \in Keys : member_roles[k] = expected[k] \ {Everyone}

\* C12: the worker loop never ends on an unhandled exception.
C12_WorkerNeverStops == pc # "crashed"

\* C13: the worker never starts an edit for a key while an earlier edit for
\* the same key has not returned.
C13_OneEditInFlight ==
    [][CallStarts => ~(call.result = "pending" /\ call.key = call'.key)]_vars

\* C13 witness: an edit is in flight for a key whose next delta is already
\* stored and whose key is at the head of the queue.
C13_Witness ==
    /\ pc = "edit"
    /\ key \in DOMAIN role_map
    /\ role_queue # <<>>
    /\ Head(role_queue) = key

\* C14 (rate limiting): when the worker starts an edit call after an earlier
\* one, the earlier call has returned, with success or failure, and the
\* worker has since completed exactly one pause of PROCESSING_WAIT_TIME.
C14_PauseBetweenEdits ==
    [][(CallStarts /\ call.key # NoKey)
       => /\ call.result \in {"ok", "fail"}
          /\ call.waited = PROCESSING_WAIT_TIME
          /\ PROCESSING_WAIT_TIME > 0]_vars

\* C14 witness: an edit call in flight that follows a failed one and one
\* pause.
C14_Witness ==
    /\ call.result = "pending"
    /\ call.attempt = 2
    /\ call.waited = 0
    /\ pc = "edit"

\* C18: the step in which an edit fails stores the popped delta, unmodified,
\* back under its key, appends the key at the back of the queue and leaves
\* the deltas of the other keys as they were.
C18_FailedEditRequeues ==
    [][(call.result = "pending" /\ call'.result = "fail")
       => /\ call.key \in DOMAIN role_map'
          /\ role_map'[call.key] = call.q
          /\ role_queue' = Append(role_queue, call.key)
          /\ DOMAIN role_map' = DOMAIN role_map \cup {call.key}
          /\ \A x \in DOMAIN role_map \ {call.key} :
                role_map'[x] = role_map[x]]_vars

\* C18 witness: an edit just failed while another key was queued with its
\* delta; the failed key is now behind it, its delta stored back.
C18_Witness ==
    /\ call.result = "fail"
    /\ pc = "sleep"
    /\ Len(role_queue) >= 2
    /\ role_queue[1] # call.key
    /\ role_queue[Len(role_queue)] = call.key
    /\ role_queue[1] \in DOMAIN role_map
    /\ role_map[call.key] = call.q

\* C19 (no starvation): a key waiting in the queue has each other key at
\* most once ahead of it, so it is dequeued after at most one further
\* attempt on any other key, a failing one included.
C19_NoStarvation ==
    \A i \in 1..Len(role_queue) :
        \A k \in Keys \ {role_queue[i]} :
            Occurrences(SubSeq(role_queue, 1, i - 1), k) <= 1

\* C20: every event not yet carried by a successful edit sits in a pending
\* delta of its subject, the one the worker holds or the one stored, in
\* arrival order; no step discards an event.
C20_NoEventDiscarded ==
    \A k \in Keys : unapplied[k] = HeldEvents(k) \o StoredEvents(k)

\* the keys that occur in a queue
QueuedKeys(queue) == {queue[i] : i \in 1..Len(queue)}

\* C21: whenever the worker is about to take a key from role_queue, role_map
\* holds a delta for that key, so role_map.pop(key) finds it.
C21_DequeuedKeyHasDelta ==
    (WorkerWaiting /\ role_queue # <<>>) => Head(role_queue) \in DOMAIN role_map

\* every key with a stored delta is queued
OrphanFree == DOMAIN role_map \subseteq QueuedKeys(role_queue)

\* C22 (no orphan delta): every key that has a delta in role_map is in
\* role_queue at every point where the worker waits, and every stored delta
\* is dequeued in the end.
C22_NoOrphanDelta ==
    /\ []OrphanFree
    /\ \A k \in Keys : (k \in DOMAIN role_map) ~> (k \notin DOMAIN role_map)

\* the step is an add_role_queue call that got as far as merging an event
\* of key k
Merges(k) == Len(unapplied'[k]) = Len(unapplied[k]) + 1

\* C23 (add_role_queue is atomic with respect to the worker): in the one
\* step of an add_role_queue call the key is in the queue, its delta is in
\* role_map with the event merged in, and the worker has not moved.
C23_EnqueueAtomic ==
    [][\A k \in Keys :
          Merges(k) =>
             /\ k \in QueuedKeys(role_queue')
             /\ k \in DOMAIN role_map'
             /\ role_map'[k].evs # <<>>
             /\ role_map'[k].evs[Len(role_map'[k].evs)]
                   = unapplied'[k][Len(unapplied'[k])]
             /\ <<pc, key, q, call>>' = <<pc, key, q, call>>]_vars

\* C23 witness: while the worker awaits the edit of one member, an event of
\* another member came: its key is last in the queue and its delta, holding
\* that one event, is stored.
C23_Witness ==
    /\ pc = "edit"
    /\ \E k \in DOMAIN role_map :
          /\ k # key
          /\ Len(role_map[k].evs) = 1
          /\ unapplied[k] = role_map[k].evs
          /\ role_queue # <<>>
          /\ role_queue[Len(role_queue)] = k

\* the step takes a key off the queue
Dequeues == Len(role_queue') = Len(role_queue) - 1

\* C24: a dequeue that finds the delta of its key starts one member edit, for
\* that key, with the roles the member holds at that moment plus the roles to
\* add minus the roles to remove; no other step starts an edit.
C24_EditFromFreshRoles ==
    [][/\ (Dequeues /\ Head(role_queue) \in DOMAIN role_map) =>
            LET k == Head(role_queue)
                d == role_map[k]
            IN /\ CallStarts
               /\ pc' = "edit"
               /\ call'.key = k
               /\ call'.roles =
                    ((member_roles[k] \cup {Everyone}) \cup d.add) \ d.del
       /\ CallStarts => Dequeues]_vars

\* C24 witness: the first edit of the behaviour is in flight for a member
\* who was given r2 outside the cog after the cog was loaded; r2 is among
\* the roles read and among the roles passed.
C24_Witness ==
    /\ call.result = "pending"
    /\ nevents = Len(call.q.evs)
    /\ "r2" \in call.read \ InitialRoles[call.key]
    /\ "r2" \in call.roles

\* C25: an add_role_queue call for a key that already has a delta leaves
\* role_queue and the deltas of the other keys as they were; a call that
\* puts the key in the queue is one that found no delta for it.
C25_MergeLeavesQueue ==
    [][\A k \in Keys :
          Merges(k) =>
             /\ k \in DOMAIN role_map =>
                   /\ role_queue' = role_queue
                   /\ DOMAIN role_map' = DOMAIN role_map
             /\ \A x \in DOMAIN role_map \ {k} : role_map'[x] = role_map[x]
             /\ role_queue' # role_queue =>
                   /\ k \notin DOMAIN role_map
                   /\ role_queue' = Append(role_queue, k)]_vars

\* C25 witness: two events of one member were merged into one stored delta
\* whose key is in the queue once, next to the key and delta of another
\* member.
C25_Witness ==
    \E k \in DOMAIN role_map :
        /\ Len(role_map[k].evs) = 2
        /\ Occurrences(role_queue, k) = 1
        /\ \E x \in DOMAIN role_map \ {k} : Occurrences(role_queue, x) = 1

\* C26 (strict FIFO order): keys join the queue at the back and leave it at
\* the front, and the member edit that starts is the one of the key that was
\* at the front: of two pushes, the earlier one has its edit call first.
C26_FifoOrder ==
    [][/\ role_queue' # role_queue =>
             \/ role_queue # <<>> /\ role_queue' = Tail(role_queue)
             \/ \E k \in Keys : role_queue' = Append(role_queue, k)
       /\ CallStarts =>
             /\ role_queue # <<>>
             /\ call'.key = Head(role_queue)
             /\ role_queue' = Tail(role_queue)]_vars

\* C26 witness: the edit of one member failed and its key was pushed again
\* behind the key of another member, pushed earlier; the other member's
\* edit is in flight while the first one's key waits.
C26_Witness ==
    /\ pc = "edit"
    /\ call.result = "pending"
    /\ role_queue # <<>>
    /\ Head(role_queue) # key
    /\ failed[Head(role_queue)].n = 1
    /\ failed[key].n = 0

\* C27: once the cog is unloaded the worker loop comes to its end, whether
\* or not a key is queued at that moment.
C27_WorkerEndsAfterUnload ==
    (~cog_loaded) ~> (pc \in {"ended", "crashed"})

\* the step is an add_role_queue call that merged nothing
CallRaised == nevents' = nevents + 1 /\ \A k \in Keys : ~Merges(k)

\* C28: a reaction-remove event of a user who is no longer a member of the
\* guild enqueues nothing: no event is merged for somebody who left, and the
\* call that raised leaves role_queue, role_map, the worker and the cog as
\* they were, ready for the next event.
C28_NonMemberRemoveIgnored ==
    [][/\ \A k \in Keys : Merges(k) => in_guild[k]
       /\ CallRaised =>
             /\ \E k \in Keys : ~in_guild[k]
             /\ <<role_queue, role_map, pc, key, q, call, cog_loaded>>'
                   = <<role_queue, role_map, pc, key, q, call, cog_loaded>>]_vars

\* C28 witness: of two events one was a reaction-remove of the member who
\* left, which stored nothing, and the other, of the member still there, was
\* merged and queued; the worker is waiting.
C28_Witness ==
    /\ nevents = 2
    /\ pc = "get"
    /\ call = NoCall
    /\ \E k \in Keys :
          /\ ~in_guild[k]
          /\ unapplied[k] = <<>>
          /\ k \notin DOMAIN role_map
          /\ \E x \in DOMAIN role_map :
                /\ in_guild[x]
                /\ Len(role_map[x].evs) = 1
                /\ role_queue = <<x>>

\* ------------------------------------------ claims on the caches
\* C29: unbinding one role of a message leaves the other bindings of the
\* message working: a reaction on an emoji the record binds to a role has
\* that role handed to add_role_queue.
C29_OtherBindingsWork ==
    reaction_out.bound # NoRole => reaction_out.role = reaction_out.bound

\* C30: every message of every link on record has its entry in the link
\* cache, whatever links were created after its own.
C30_LinksPreserved ==
    \A name \in DOMAIN link_config :
        \A m \in Range(link_config[name]) : m \in DOMAIN links

\* C31: a message that was bound when it was deleted is in none of the
\* message cache, the role cache, the link cache and the link lists on
\* record, and a reaction event that comes for it after the deletion hands
\* no role to add_role_queue.
C31_DeletedMessageForgotten ==
    /\ \A m \in Msgs :
          deleted[m] = "bound" =>
             /\ ~get_from_message_cache(m)
             /\ get_all_roles_from_message(m) = {}
             /\ m \notin DOMAIN links
             /\ \A n \in DOMAIN link_config : m \notin Range(link_config[n])
    /\ reaction_out.gone => reaction_out.role = NoRole

\* ------------------------------------------ claims on the other cogs
\* C15 (the birthday role is held for the whole UTC day): a member loses
\* the birthday role only on a day after the one on which handle_bday gave
\* it to them.
C15_RoleHeldAllDay ==
    [][\A u \in Users :
          (has_role[u] /\ ~has_role'[u]) => granted_on[u] < today]_vars

C17_ExactConversion ==
    tz_pc = "answered" =>
        60 * hours_dest + minutes_dest =
            (60 * hours_source + minutes_source + offset_minutes) % 1440

\* C32: handle_bday is started at most once per user and UTC day, however
\* many times the daily loop goes round.
C32_OneStartPerDay ==
    \A u \in Users : started[u] <= 1

\* C33: clean_yesterday_bdays clears the list it read: every id that is in
\* yesterdays when line 197 clears it was in the copy of line 194 and so was
\* passed to clean_bday; no id appended in between is lost.
C33_NoIdLost ==
    [][(bday_pc \in {"clear48", "clear51"} /\ bday_pc' # bday_pc)
          => yesterdays = yesterdays_read]_vars

\* C34: a user's id is under at most one date of the date config, whatever
\* bday set and bday remove commands the user issued and however their steps
\* interleaved.
C34_OneDatePerUser ==
    \A u \in Users : Cardinality(date_config[u]) <= 1
====
